---- MODULE Spec2Model ----
(***************************************************************************)
(* Model of the ivi-id-agent weston module                                 *)
(* (ivi-id-agent-modules/ivi-id-agent/src/ivi-id-agent.c).                 *)
(*                                                                         *)
(* The agent reads an ordered list of [desktop-app] rules and an optional  *)
(* [desktop-app-default] id range from the weston configuration, gives     *)
(* every id-less desktop surface an id on its "configured" event and       *)
(* mirrors the assignment into a redis registry.                           *)
(*                                                                         *)
(* uint32_t / int32_t are scaled down to UINT_BITS bits: TLC's integers    *)
(* are 32 bit wide, so 0xFFFFFFFF is 2^UINT_BITS - 1 here and the sign bit *)
(* is bit UINT_BITS - 1.  Every conversion keeps that width.               *)
(***************************************************************************)
EXTENDS Integers, Sequences, FiniteSets, TLC

\* ------------------------------------------------------------------------
\* Bounds of the model
\* ------------------------------------------------------------------------
UINT_BITS == 4
NumSurfaces == 2
MaxRules == 2
MaxId == 3
MaxEvents == 4

\* ------------------------------------------------------------------------
\* Program constants and C types
\* ------------------------------------------------------------------------
UINT_MOD == 2 ^ UINT_BITS
INT_MAX == 2 ^ (UINT_BITS - 1) - 1
INVALID_ID == UINT_MOD - 1
IVI_INVALID_ID == INVALID_ID
IVI_SUCCEEDED == "IVI_SUCCEEDED"
IVI_FAILED == "IVI_FAILED"
NULL == "<NULL>"
REDIS_SERVER_IP == "127.0.0.1"
\* Mutant of RETRY: one retry more
RETRY_more == 10 + 1
RETRY == 10

\* (int32_t) of a uint32_t value: two's complement reinterpretation.
ToInt32(u) == IF u > INT_MAX THEN u - UINT_MOD ELSE u

\* The pointer values a struct ivi_layout_surface * takes: 0 is NULL.
Surfaces == 1 .. NumSurfaces
NoSurface == 0

\* ------------------------------------------------------------------------
\* State
\* ------------------------------------------------------------------------
VARIABLES
    pc,                      \* "init" before id_agent_module_init, then "run" | "failed" | "crashed"
    config,                  \* the weston configuration file (input of read_config)
    default_behavior_set,    \* struct ivi_id_agent
    default_surface_id,
    default_surface_id_max,
    app_list,                \* wl_list of struct db_elem, head first
    redis_ctx,               \* "NULL" | "ok" | "err" (ctx->err set)
    redis_server,
    redis_db,                \* the registry's key -> value content
    surfaces,                \* the host's surfaces (ivi-layout)
    ev,                      \* the last event delivered and what its handler did
    hist                     \* history of the default allocator's use

vars == <<pc, config, default_behavior_set, default_surface_id,
          default_surface_id_max, app_list, redis_ctx, redis_server,
          redis_db, surfaces, ev, hist>>

ida_vars == <<default_behavior_set, default_surface_id,
              default_surface_id_max, app_list, redis_ctx, redis_server>>

\* ------------------------------------------------------------------------
\* Configuration file (input of read_config)
\* ------------------------------------------------------------------------
Strings == {"a", "b"}
Patterns == Strings \cup {NULL}

\* [desktop-app-default]; a missing key reads as INVALID_ID (lines 397-400)
NoSection == [present |-> FALSE, id |-> 0, max |-> 0]
DefaultSections(vals) ==
    {NoSection} \cup
    {[present |-> TRUE, id |-> s, max |-> m] : s \in vals, m \in vals}

\* [desktop-app] sections; a missing key reads as INVALID_ID / NULL
AppSections(ids, apps, titles) ==
    [name : {"desktop-app"}, surface_id : ids, app_id : apps,
     app_title : titles, server : {NULL}]

\* [redis-server] with server = v (NULL: key missing)
RedisSection(v) ==
    [name |-> "redis-server", surface_id |-> 0, app_id |-> NULL,
     app_title |-> NULL, server |-> v]

SeqsUpTo(S, n) == UNION {[1 .. k -> S] : k \in 0 .. n}

\* ------------------------------------------------------------------------
\* read_config and check_config
\* ------------------------------------------------------------------------
\* struct ivi_id_agent after calloc and lines 497-511
ida_calloc ==
    [default_behavior_set |-> 0, default_surface_id |-> 0,
     default_surface_id_max |-> 0, app_list |-> <<>>,
     redis_server |-> REDIS_SERVER_IP]

\* struct db_elem after calloc
db_elem_calloc ==
    [surface_id |-> 0, cfg_app_id |-> NULL, cfg_title |-> NULL,
     layout_surface |-> NoSurface]

\* Mutant of check_config: the default interval taken half-open
check_config_half_open(curr, ida) ==
    LET e == ida.app_list[curr] IN
    IF ida.default_surface_id <= e.surface_id
       /\ e.surface_id < ida.default_surface_id_max
    THEN IVI_FAILED
    ELSE IF \E i \in DOMAIN ida.app_list :
                i # curr /\ ida.app_list[i].surface_id = e.surface_id
         THEN IVI_FAILED
         ELSE IVI_SUCCEEDED

\* check_config: curr is the position of curr_db_elem in ida.app_list
check_config(curr, ida) ==
    LET e == ida.app_list[curr] IN
    IF ida.default_surface_id <= e.surface_id
       /\ e.surface_id <= ida.default_surface_id_max
    THEN IVI_FAILED
    ELSE IF \E i \in DOMAIN ida.app_list :
                i # curr /\ ida.app_list[i].surface_id = e.surface_id
         THEN IVI_FAILED
         ELSE IVI_SUCCEEDED

\* lines 389-410
read_default_section(ida, sec) ==
    IF sec.present
    THEN LET a == [ida EXCEPT !.default_behavior_set = 1,
                              !.default_surface_id = sec.id,
                              !.default_surface_id_max = sec.max]
         IN IF sec.id = INVALID_ID \/ sec.max = INVALID_ID
            THEN [a EXCEPT !.default_behavior_set = 0]
            ELSE a
    ELSE [ida EXCEPT !.default_behavior_set = 0]

\* lines 416-436
read_redis_section(ida, sec) ==
    IF sec.server # NULL /\ (sec.server = "" \/ sec.server = "off")
    THEN [ida EXCEPT !.redis_server = NULL]
    ELSE [ida EXCEPT !.redis_server = sec.server]

\* Mutant of wl_list_insert: insertion at the tail
wl_list_insert_tail(list, elem) == list \o <<elem>>

\* wl_list_insert(&ida->app_list, &db_elem->link): insertion at the head
wl_list_insert(list, elem) == <<elem>> \o list

\* lines 413-477: the loop over the sections, from section i on
RECURSIVE read_sections(_, _, _)
read_sections(secs, i, ida) ==
    IF i > Len(secs)
    THEN IF ida.default_behavior_set = 0 /\ ida.app_list = <<>>
         THEN [ret |-> IVI_FAILED, ida |-> ida]
         ELSE [ret |-> IVI_SUCCEEDED, ida |-> ida]
    ELSE LET sec == secs[i] IN
         IF sec.name = "redis-server"
         THEN read_sections(secs, i + 1, read_redis_section(ida, sec))
         ELSE IF sec.name # "desktop-app"
         THEN read_sections(secs, i + 1, ida)
         ELSE LET db_elem == [db_elem_calloc EXCEPT
                                  !.surface_id = sec.surface_id,
                                  !.cfg_app_id = sec.app_id,
                                  !.cfg_title = sec.app_title]
                  a == [ida EXCEPT !.app_list = wl_list_insert(@, db_elem)]
              IN IF db_elem.surface_id = INVALID_ID
                 THEN [ret |-> IVI_FAILED, ida |-> a]
                 ELSE IF db_elem.cfg_app_id = NULL /\ db_elem.cfg_title = NULL
                 THEN [ret |-> IVI_FAILED, ida |-> a]
                 ELSE IF check_config(1, a) = IVI_FAILED
                 THEN [ret |-> IVI_FAILED, ida |-> a]
                 ELSE read_sections(secs, i + 1, a)

read_config(ida, cfg) ==
    read_sections(cfg.sections, 1, read_default_section(ida, cfg.default))

\* deinit: every db_elem and the agent itself are freed
deinit(ida) == [ida EXCEPT !.app_list = <<>>]

\* ------------------------------------------------------------------------
\* redis_connect
\* ------------------------------------------------------------------------
\* The loop of lines 81-89 entered with an invalid context and `retry`
\* retries left: the contexts it can end with, the number of redisConnect
\* calls made and their outcomes in order ("failed": an invalid context).
connect_loop[retry \in 0 .. RETRY] ==
    {[ctx |-> "ok", attempts |-> 1, outcomes |-> <<"ok">>]} \cup
    (IF retry = 0
     THEN {[ctx |-> c, attempts |-> 1, outcomes |-> <<"failed">>] :
              c \in {"err", "NULL"}}
     ELSE {[ctx |-> r.ctx, attempts |-> r.attempts + 1,
            outcomes |-> <<"failed">> \o r.outcomes] :
              r \in connect_loop[retry - 1]})

redis_connect(server) ==
    IF server = NULL
    THEN {[ctx |-> "NULL", attempts |-> 0, outcomes |-> <<>>]}
    ELSE connect_loop[RETRY]

\* Mutant of valid_redis_ctx: the error flag of the context is not looked at
valid_redis_ctx_not_null(c) == c # "NULL"

\* line 64: (c && !c->err)
valid_redis_ctx(c) == c = "ok"

\* ------------------------------------------------------------------------
\* Initial state and module initialisation
\* ------------------------------------------------------------------------
DeadSurface ==
    [live |-> FALSE, id_surface |-> IVI_INVALID_ID, app_id |-> NULL,
     title |-> NULL, origin |-> "none"]

NoEvent ==
    [op |-> "none", s |-> NoSurface, ret |-> IVI_SUCCEEDED, path |-> "none",
     calls |-> <<>>, cmds |-> <<>>]

InitWith(cfgs) ==
    /\ pc = "init"
    /\ config \in cfgs
    /\ default_behavior_set = ida_calloc.default_behavior_set
    /\ default_surface_id = ida_calloc.default_surface_id
    /\ default_surface_id_max = ida_calloc.default_surface_id_max
    /\ app_list = ida_calloc.app_list
    /\ redis_ctx = "NULL"
    /\ redis_server = ida_calloc.redis_server
    /\ redis_db = {}
    /\ surfaces = [s \in Surfaces |-> DeadSurface]
    /\ ev = NoEvent
    /\ hist = [k |-> 0, clean |-> TRUE]

\* id_agent_module_init (lines 485-524)
id_agent_module_init ==
    /\ pc = "init"
    /\ LET r == read_config(ida_calloc, config)
           ida == IF r.ret = IVI_SUCCEEDED THEN r.ida ELSE deinit(r.ida)
       IN /\ default_behavior_set' = ida.default_behavior_set
          /\ default_surface_id' = ida.default_surface_id
          /\ default_surface_id_max' = ida.default_surface_id_max
          /\ app_list' = ida.app_list
          /\ redis_server' = ida.redis_server
          /\ hist' = hist
          /\ IF r.ret = IVI_SUCCEEDED
             THEN /\ pc' = "run"
                  /\ \E c \in redis_connect(ida.redis_server) :
                         /\ redis_ctx' = c.ctx
                         /\ ev' = [NoEvent EXCEPT
                                      !.op = "init", !.ret = r.ret,
                                      !.calls = [i \in 1 .. c.attempts |->
                                                    <<"redisConnect", c.outcomes[i]>>]]
             ELSE /\ pc' = "failed"
                  /\ redis_ctx' = redis_ctx
                  /\ ev' = [NoEvent EXCEPT !.op = "init", !.ret = r.ret]
    /\ UNCHANGED <<config, redis_db, surfaces>>

\* ------------------------------------------------------------------------
\* Specification of the configuration load alone
\* ------------------------------------------------------------------------
LoadIds == (0 .. MaxId) \cup {INT_MAX + 1, INVALID_ID}
LoadRules == AppSections(LoadIds, {NULL, "a"}, {NULL, "a"})
LoadConfigs ==
    {[default |-> d, sections |-> r \o x] :
        d \in DefaultSections((1 .. MaxId) \cup {INVALID_ID}),
        r \in {<<RedisSection("off")>>},
        x \in SeqsUpTo(LoadRules, MaxRules)}

InitLoad == InitWith(LoadConfigs)
NextLoad == id_agent_module_init
SpecLoad == InitLoad /\ [][NextLoad]_vars

\* ------------------------------------------------------------------------
\* The host (ivi-layout): surfaces and their ids
\* ------------------------------------------------------------------------
get_id_of_surface(surfs, s) == surfs[s].id_surface

get_surface_from_id(surfs, id) ==
    IF \E s \in Surfaces : surfs[s].live /\ surfs[s].id_surface = id
    THEN CHOOSE s \in Surfaces : surfs[s].live /\ surfs[s].id_surface = id
    ELSE NoSurface

\* An id can be set once, and only while no live surface holds it.
surface_set_id(surfs, s, id) ==
    IF surfs[s].id_surface # IVI_INVALID_ID
    THEN [ret |-> IVI_FAILED, surfaces |-> surfs]
    ELSE IF get_surface_from_id(surfs, id) # NoSurface
    THEN [ret |-> IVI_FAILED, surfaces |-> surfs]
    ELSE [ret |-> IVI_SUCCEEDED,
          surfaces |-> [surfs EXCEPT ![s].id_surface = id]]

weston_desktop_surface_get_title(surfs, s) == surfs[s].title
weston_desktop_surface_get_app_id(surfs, s) == surfs[s].app_id

\* ------------------------------------------------------------------------
\* The registry (hiredis): one blocking command
\* ------------------------------------------------------------------------
\* printf("%d") of an int32_t, and the key "SURID-%d"
FormatD(n) == ToString(n)
SuridKey(n) == "SURID-" \o FormatD(n)

DbHas(db, key) == \E e \in db : e.k = key
DbGet(db, key) == (CHOOSE e \in db : e.k = key).v
DbDel(db, key) == {e \in db : e.k # key}
DbSet(db, key, val) == DbDel(db, key) \cup {[k |-> key, v |-> val]}

NullReply == [null |-> TRUE, str |-> NULL]

\* redisCommand: cmd is <<"SET", key, value>>, <<"GET", key>> or <<"DEL", key>>.
\* A context in error answers NULL at once; a command that fails (fail: the
\* registry's choice) puts the context in error and answers NULL.
redisCommand(st, cmd, fail) ==
    LET issued == [st EXCEPT !.cmds = Append(@, cmd)] IN
    IF st.redis_ctx # "ok"
    THEN [st |-> issued, reply |-> NullReply]
    ELSE IF fail
    THEN [st |-> [issued EXCEPT !.redis_ctx = "err"], reply |-> NullReply]
    ELSE IF cmd[1] = "SET"
    THEN [st |-> [issued EXCEPT !.redis_db = DbSet(@, cmd[2], cmd[3])],
          reply |-> [null |-> FALSE, str |-> "OK"]]
    ELSE IF cmd[1] = "GET"
    THEN [st |-> issued,
          reply |-> [null |-> FALSE,
                     str |-> IF DbHas(st.redis_db, cmd[2])
                             THEN DbGet(st.redis_db, cmd[2]) ELSE NULL]]
    ELSE [st |-> [issued EXCEPT !.redis_db = DbDel(@, cmd[2])],
          reply |-> [null |-> FALSE, str |-> NULL]]

\* Mutant of redis_reg: the arguments of the second SET in the wrong order
redis_reg_swapped(st, app_id, surface_id, fail) ==
    LET called == [st EXCEPT !.calls = Append(@, <<"redis_reg", app_id, surface_id>>)] IN
    IF ~valid_redis_ctx(st.redis_ctx) THEN called
    ELSE IF app_id = NULL THEN called
    ELSE IF surface_id <= 0 THEN called
    ELSE LET r1 == redisCommand(called, <<"SET", app_id, FormatD(surface_id)>>, fail = 1)
             r2 == redisCommand(r1.st, <<"SET", app_id, SuridKey(surface_id)>>, fail = 2)
         IN r2.st

\* redis_reg(ida, app_id, surface_id): surface_id is the int32_t parameter
redis_reg(st, app_id, surface_id, fail) ==
    LET called == [st EXCEPT !.calls = Append(@, <<"redis_reg", app_id, surface_id>>)] IN
    IF ~valid_redis_ctx(st.redis_ctx) THEN called
    ELSE IF app_id = NULL THEN called
    ELSE IF surface_id <= 0 THEN called
    ELSE LET r1 == redisCommand(called, <<"SET", app_id, FormatD(surface_id)>>, fail = 1)
             r2 == redisCommand(r1.st, <<"SET", SuridKey(surface_id), app_id>>, fail = 2)
         IN r2.st

\* Mutant of has_app_id: the forward key is deleted whatever GET answered
has_app_id_always(app_id) == TRUE

\* line 149: if (app_id)
has_app_id(app_id) == app_id # NULL

\* redis_unreg(ida, surface_id).  reply->str of a NULL reply (line 143) is
\* undefined behaviour: ub is what the build does there, "crash" or the
\* value read in place of reply->str.
redis_unreg(st, surface_id, fail, ub) ==
    LET called == [st EXCEPT !.calls = Append(@, <<"redis_unreg", surface_id>>)] IN
    IF ~valid_redis_ctx(st.redis_ctx) THEN called
    ELSE IF surface_id <= 0 THEN called
    ELSE LET r1 == redisCommand(called, <<"GET", SuridKey(surface_id)>>, fail = 1)
         IN IF r1.reply.null /\ ub = "crash"
            THEN [r1.st EXCEPT !.crashed = TRUE]
            ELSE LET app_id == IF r1.reply.null THEN ub ELSE r1.reply.str
                     r2 == redisCommand(r1.st, <<"DEL", SuridKey(surface_id)>>, fail = 2)
                 IN IF has_app_id(app_id)
                    THEN redisCommand(r2.st, <<"DEL", app_id>>, fail = 3).st
                    ELSE r2.st

\* ------------------------------------------------------------------------
\* Rule matching and id generation
\* ------------------------------------------------------------------------
\* Mutant of check_config_parameter: the pattern is not compared
check_config_parameter_any(cfg_val, val) == IVI_SUCCEEDED

\* check_config_parameter (lines 164-173)
check_config_parameter(cfg_val, val) ==
    IF cfg_val = NULL THEN IVI_SUCCEEDED
    ELSE IF val = NULL \/ cfg_val # val THEN IVI_FAILED
    ELSE IVI_SUCCEEDED

\* The state a handler works on: the agent, the host and the registry
HandlerState ==
    [app_list |-> app_list, surfaces |-> surfaces, redis_ctx |-> redis_ctx,
     redis_db |-> redis_db, default_surface_id |-> default_surface_id,
     ret |-> IVI_SUCCEEDED, path |-> "none", calls |-> <<>>, cmds |-> <<>>,
     crashed |-> FALSE]

\* Mutant of get_id_from_config_from: a rejected id ends the loop (break)
RECURSIVE get_id_from_config_break(_, _, _, _, _, _)
get_id_from_config_break(i, st, layout_surface, temp_app_id, temp_title, fail) ==
    IF i > Len(st.app_list)
    THEN [st EXCEPT !.ret = IVI_FAILED]
    ELSE LET db_elem == st.app_list[i] IN
         IF check_config_parameter(db_elem.cfg_app_id, temp_app_id) = IVI_SUCCEEDED
            /\ check_config_parameter(db_elem.cfg_title, temp_title) = IVI_SUCCEEDED
         THEN LET res == surface_set_id(st.surfaces, layout_surface,
                                        db_elem.surface_id)
              IN IF res.ret # IVI_SUCCEEDED
                 THEN [st EXCEPT !.ret = IVI_FAILED]
                 ELSE redis_reg(
                          [st EXCEPT !.surfaces = res.surfaces,
                                     !.app_list[i].layout_surface = layout_surface,
                                     !.ret = IVI_SUCCEEDED,
                                     !.path = "rule"],
                          temp_app_id, ToInt32(db_elem.surface_id), fail)
         ELSE get_id_from_config_break(i + 1, st, layout_surface,
                                       temp_app_id, temp_title, fail)

\* get_id_from_config: the wl_list_for_each of lines 185-202, from element i on
RECURSIVE get_id_from_config_from(_, _, _, _, _, _)
get_id_from_config_from(i, st, layout_surface, temp_app_id, temp_title, fail) ==
    IF i > Len(st.app_list)
    THEN [st EXCEPT !.ret = IVI_FAILED]
    ELSE LET db_elem == st.app_list[i] IN
         IF check_config_parameter(db_elem.cfg_app_id, temp_app_id) = IVI_SUCCEEDED
            /\ check_config_parameter(db_elem.cfg_title, temp_title) = IVI_SUCCEEDED
         THEN LET res == surface_set_id(st.surfaces, layout_surface,
                                        db_elem.surface_id)
              IN IF res.ret # IVI_SUCCEEDED
                 THEN get_id_from_config_from(i + 1, st, layout_surface,
                                              temp_app_id, temp_title, fail)
                 ELSE redis_reg(
                          [st EXCEPT !.surfaces = res.surfaces,
                                     !.app_list[i].layout_surface = layout_surface,
                                     !.ret = IVI_SUCCEEDED,
                                     !.path = "rule"],
                          temp_app_id, ToInt32(db_elem.surface_id), fail)
         ELSE get_id_from_config_from(i + 1, st, layout_surface,
                                      temp_app_id, temp_title, fail)

get_id_from_config(st, layout_surface, temp_app_id, temp_title, fail) ==
    get_id_from_config_from(1, st, layout_surface, temp_app_id, temp_title, fail)

\* Mutant of default_id_available: the upper bound taken inclusive
default_id_available_inclusive(id, max) == id <= max

\* line 257: the default range is not exhausted
default_id_available(id, max) == id < max

\* Mutant of default_id_in_use: the check for a surface holding the id dropped
default_id_in_use_never(temp_layout_surf, layout_surface) == FALSE

\* line 269: the id is held by a surface other than the one configured
default_id_in_use(temp_layout_surf, layout_surface) ==
    temp_layout_surf # NoSurface /\ temp_layout_surf # layout_surface

\* Mutant of next_default_surface_id: the cursor is not advanced
next_default_surface_id_stuck(id) == id

\* line 281: ida->default_surface_id++ on a uint32_t
next_default_surface_id(id) == (id + 1) % UINT_MOD

\* Mutant of app_id_or_title: no fallback to the title
app_id_only(app, temp_title) == app

\* lines 233-238: temp_app_id is the application id and, without one, the title
app_id_or_title(app, temp_title) == IF app # NULL THEN app ELSE temp_title

\* get_id (lines 214-298)
get_id(st, layout_surface, fail) ==
    LET temp_title == weston_desktop_surface_get_title(st.surfaces, layout_surface)
        app == weston_desktop_surface_get_app_id(st.surfaces, layout_surface)
        temp_app_id == app_id_or_title(app, temp_title)
        cfg == get_id_from_config(st, layout_surface, temp_app_id, temp_title, fail)
    IN IF cfg.ret = IVI_SUCCEEDED THEN cfg
       ELSE IF default_behavior_set = 0
       THEN [cfg EXCEPT !.ret = IVI_FAILED]
       ELSE IF default_id_available(cfg.default_surface_id, default_surface_id_max)
       THEN LET temp_layout_surf ==
                    get_surface_from_id(cfg.surfaces, cfg.default_surface_id)
            IN IF default_id_in_use(temp_layout_surf, layout_surface)
               THEN [cfg EXCEPT !.ret = IVI_FAILED, !.path = "collision"]
               ELSE LET res == surface_set_id(cfg.surfaces, layout_surface,
                                              cfg.default_surface_id)
                        reg == redis_reg(
                                   [cfg EXCEPT !.surfaces = res.surfaces,
                                               !.ret = IVI_SUCCEEDED,
                                               !.path = "default"],
                                   temp_app_id, ToInt32(cfg.default_surface_id),
                                   fail)
                    IN [reg EXCEPT !.default_surface_id = next_default_surface_id(@)]
       ELSE [cfg EXCEPT !.ret = IVI_FAILED, !.path = "exhausted"]

\* The rules (positions in app_list) whose set patterns all match an identity
Matching(list, app, title) ==
    {i \in DOMAIN list :
        /\ list[i].cfg_app_id # NULL => (app # NULL /\ list[i].cfg_app_id = app)
        /\ list[i].cfg_title # NULL => (title # NULL /\ list[i].cfg_title = title)}

\* The identity snapshot of a surface: <<applicationId, title>>
Identity(surfs, s) ==
    <<IF surfs[s].app_id # NULL THEN surfs[s].app_id ELSE surfs[s].title,
      surfs[s].title>>

Min(a, b) == IF a < b THEN a ELSE b

\* History of the default allocator: k counts the id-less surfaces configured
\* that matched no rule, for as long as (clean) no surface that matched a
\* rule entered the default path and no cursor id was found occupied.
NextHist(s, st) ==
    LET id == Identity(surfaces, s)
        unmatched == Matching(app_list, id[1], id[2]) = {}
        disturbed == \/ st.path = "collision"
                     \/ ~unmatched /\ st.path \in {"default", "exhausted"}
    IN IF default_behavior_set = 0 \/ ~hist.clean THEN hist
       ELSE IF disturbed THEN [hist EXCEPT !.k = 0, !.clean = FALSE]
       ELSE IF unmatched THEN [hist EXCEPT !.k = Min(@ + 1, MaxEvents)]
       ELSE hist

\* ------------------------------------------------------------------------
\* Event handlers
\* ------------------------------------------------------------------------
\* What the environment decides during one handler: which registry command
\* of the handler is the first to fail (0: none), and what the build does on
\* the undefined read of line 143.
UBOutcomes == {"crash", NULL}
Oracles ==
    IF valid_redis_ctx(redis_ctx)
    THEN {o \in [fail : 0 .. 3, ub : UBOutcomes] :
             o.ub = "crash" => o.fail = 1}
    ELSE {[fail |-> 0, ub |-> NULL]}

\* Mutant of surface_needs_id: get_id is called whatever the surface's id
surface_needs_id_always(surface_id) == TRUE

\* line 311: the host reports no id for the surface
surface_needs_id(surface_id) == surface_id = IVI_INVALID_ID

\* desktop_surface_event_configure (lines 300-315)
desktop_surface_event_configure(s) ==
    /\ pc = "run"
    /\ surfaces[s].live
    /\ LET surface_id == get_id_of_surface(surfaces, s) IN
       IF surface_needs_id(surface_id)
       THEN \E o \in Oracles :
            LET st == get_id(HandlerState, s, o.fail) IN
            /\ app_list' = st.app_list
            /\ surfaces' = [st.surfaces EXCEPT ![s].origin =
                               IF st.ret = IVI_SUCCEEDED THEN st.path ELSE @]
            /\ redis_ctx' = st.redis_ctx
            /\ redis_db' = st.redis_db
            /\ default_surface_id' = st.default_surface_id
            /\ ev' = [op |-> "configure", s |-> s, ret |-> st.ret,
                      path |-> st.path, calls |-> st.calls, cmds |-> st.cmds]
            /\ hist' = NextHist(s, st)
       ELSE /\ ev' = [op |-> "configure", s |-> s, ret |-> IVI_SUCCEEDED,
                      path |-> "none", calls |-> <<>>, cmds |-> <<>>]
            /\ UNCHANGED <<app_list, surfaces, redis_ctx, redis_db,
                           default_surface_id, hist>>
    /\ UNCHANGED <<pc, config, default_behavior_set, default_surface_id_max,
                   redis_server>>

\* Mutant of release: the binding is left in place
release_never(list, layout_surface) == list

\* The loop of lines 325-331: the first rule bound to the surface is unbound
release(list, layout_surface) ==
    IF \E i \in DOMAIN list : list[i].layout_surface = layout_surface
    THEN LET i == CHOOSE j \in DOMAIN list :
                      /\ list[j].layout_surface = layout_surface
                      /\ \A h \in 1 .. j - 1 : list[h].layout_surface # layout_surface
         IN [list EXCEPT ![i].layout_surface = NoSurface]
    ELSE list

\* surface_event_remove (lines 317-335); the host then frees the surface
surface_event_remove(s) ==
    /\ pc = "run"
    /\ surfaces[s].live
    /\ \E o \in Oracles :
       LET released == [HandlerState EXCEPT !.app_list = release(@, s)]
           surface_id == ToInt32(get_id_of_surface(surfaces, s))
           st == redis_unreg(released, surface_id, o.fail, o.ub)
       IN /\ app_list' = st.app_list
          /\ redis_ctx' = st.redis_ctx
          /\ redis_db' = st.redis_db
          /\ ev' = [op |-> "remove", s |-> s, ret |-> IVI_SUCCEEDED,
                    path |-> "none", calls |-> st.calls, cmds |-> st.cmds]
          /\ IF st.crashed
             THEN /\ pc' = "crashed"
                  /\ surfaces' = surfaces
             ELSE /\ pc' = pc
                  /\ surfaces' = [surfaces EXCEPT ![s] = DeadSurface]
    /\ UNCHANGED <<config, default_behavior_set, default_surface_id,
                   default_surface_id_max, redis_server, hist>>

\* ------------------------------------------------------------------------
\* The host's own steps
\* ------------------------------------------------------------------------
\* A desktop (xdg-shell) surface appears, without an id
HostCreateDesktopSurface(s, app, title) ==
    /\ pc = "run"
    /\ ~surfaces[s].live
    /\ surfaces' = [surfaces EXCEPT ![s] =
                       [live |-> TRUE, id_surface |-> IVI_INVALID_ID,
                        app_id |-> app, title |-> title, origin |-> "none"]]
    /\ ev' = [NoEvent EXCEPT !.op = "create", !.s = s]
    /\ UNCHANGED <<pc, config, ida_vars, redis_db, hist>>

\* An ivi-application client creates a surface under an id of its choice
HostCreateIviSurface(s, id) ==
    /\ pc = "run"
    /\ ~surfaces[s].live
    /\ get_surface_from_id(surfaces, id) = NoSurface
    /\ surfaces' = [surfaces EXCEPT ![s] =
                       [live |-> TRUE, id_surface |-> id,
                        app_id |-> NULL, title |-> NULL, origin |-> "host"]]
    /\ ev' = [NoEvent EXCEPT !.op = "create", !.s = s]
    /\ UNCHANGED <<pc, config, ida_vars, redis_db, hist>>

\* ------------------------------------------------------------------------
\* Specification of the running module, registry switched off
\* ------------------------------------------------------------------------
Events(apps, titles, foreign) ==
    \/ id_agent_module_init
    \/ \E s \in Surfaces : desktop_surface_event_configure(s)
    \/ \E s \in Surfaces : surface_event_remove(s)
    \/ \E s \in Surfaces, app \in apps, title \in titles :
           HostCreateDesktopSurface(s, app, title)
    \/ \E s \in Surfaces, id \in foreign : HostCreateIviSurface(s, id)

\* Rule ids 1 .. MaxRules; the default range, when configured, is
\* [MaxRules + 1, MaxRules + 3) or the empty "range" from MaxRules + 3 down
\* to MaxRules + 1.
RunRuleIds == 1 .. MaxRules
RunRangeLo == MaxRules + 1
RunRangeHi == MaxRules + 3
RunDefaults ==
    {NoSection,
     [present |-> TRUE, id |-> RunRangeLo, max |-> RunRangeHi],
     [present |-> TRUE, id |-> RunRangeHi, max |-> RunRangeLo]}
RunRules == AppSections(RunRuleIds, {NULL, "a"}, {NULL, "a"})
RunConfigs ==
    {[default |-> d, sections |-> <<RedisSection("off")>> \o x] :
        d \in RunDefaults, x \in SeqsUpTo(RunRules, MaxRules)}
AppIds == {NULL, "a", "b"}
Titles == {NULL, "a"}
ForeignIds == RunRuleIds \cup (RunRangeLo .. RunRangeHi - 1)

Init == InitWith(RunConfigs)
Next == Events(AppIds, Titles, ForeignIds)
Spec == Init /\ [][Next]_vars

\* ------------------------------------------------------------------------
\* Specification of the running module, registry at the default endpoint
\* ------------------------------------------------------------------------
RegRules ==
    {[name |-> "desktop-app", surface_id |-> 1, app_id |-> "a",
      app_title |-> NULL, server |-> NULL],
     [name |-> "desktop-app", surface_id |-> 2, app_id |-> "a",
      app_title |-> "b", server |-> NULL]}
RegDefaults ==
    {NoSection, [present |-> TRUE, id |-> RunRangeLo, max |-> RunRangeLo + 1]}
RegConfigs ==
    {[default |-> d, sections |-> x] :
        d \in RegDefaults, x \in SeqsUpTo(RegRules, MaxRules)}
RegAppIds == {NULL, "a"}
RegTitles == {NULL, "b"}
RegForeignIds == {1}

InitReg == InitWith(RegConfigs)
NextReg == Events(RegAppIds, RegTitles, RegForeignIds)
SpecReg == InitReg /\ [][NextReg]_vars

\* ------------------------------------------------------------------------
\* Specification of the running module with ids on both sides of 2^31, the
\* registry at the default endpoint or switched off
\* ------------------------------------------------------------------------
MirrorRules ==
    <<[name |-> "desktop-app", surface_id |-> 1, app_id |-> "a",
       app_title |-> NULL, server |-> NULL],
      [name |-> "desktop-app", surface_id |-> INT_MAX + 1, app_id |-> "b",
       app_title |-> NULL, server |-> NULL]>>
MirrorDefaults ==
    {NoSection, [present |-> TRUE, id |-> INT_MAX + 2, max |-> INT_MAX + 3]}
MirrorConfigs ==
    {[default |-> d, sections |-> r \o MirrorRules] :
        d \in MirrorDefaults, r \in {<<>>, <<RedisSection("off")>>}}
MirrorAppIds == {NULL, "a", "b", "c"}
MirrorTitles == {NULL}
MirrorForeignIds == {1}

InitMirror == InitWith(MirrorConfigs)
NextMirror == Events(MirrorAppIds, MirrorTitles, MirrorForeignIds)
SpecMirror == InitMirror /\ [][NextMirror]_vars

\* ------------------------------------------------------------------------
\* Vocabulary of the properties
\* ------------------------------------------------------------------------
IsAppSection(sec) == sec.name = "desktop-app"

\* The rules in the order the configuration declares them
Declared == SelectSeq(config.sections, IsAppSection)
DeclaredIds == {Declared[j].surface_id : j \in DOMAIN Declared}

\* The declared rules whose set patterns all equal the identity's fields
DeclaredMatching(id) ==
    {j \in DOMAIN Declared :
        /\ Declared[j].app_id # NULL =>
               (id[1] # NULL /\ Declared[j].app_id = id[1])
        /\ Declared[j].app_title # NULL =>
               (id[2] # NULL /\ Declared[j].app_title = id[2])}

\* The rules, by position in app_list, that match surface s
MatchingOf(s) ==
    Matching(app_list, Identity(surfaces, s)[1], Identity(surfaces, s)[2])

SetMin(S) == CHOOSE x \in S : \A y \in S : x <= y
SetMax(S) == CHOOSE x \in S : \A y \in S : y <= x

\* id is held by a live surface other than s
Held(id, s) ==
    \E t \in Surfaces \ {s} : surfaces[t].live /\ surfaces[t].id_surface = id

IdLess(s) == surfaces[s].id_surface = IVI_INVALID_ID

\* This step delivers "surface configured" for s
ConfigureStep(s) ==
    pc = "run" /\ surfaces[s].live /\ ev'.op = "configure" /\ ev'.s = s

\* This step delivers "surface removed" for s
RemoveStep(s) ==
    pc = "run" /\ surfaces[s].live /\ ev'.op = "remove" /\ ev'.s = s

\* ------------------------------------------------------------------------
\* C1: when every rule that matches an id-less surface has its id held by a
\* different live surface (the host rejects it), the configure event fails:
\* the surface stays id-less and the default allocator is not used, so the
\* default cursor is unchanged, even with default behaviour enabled and the
\* range not exhausted.
\* ------------------------------------------------------------------------
C1_RejectedMatchEndsInFailure ==
    [][\A s \in Surfaces :
          (/\ ConfigureStep(s)
           /\ IdLess(s)
           /\ MatchingOf(s) # {}
           /\ \A i \in MatchingOf(s) : Held(app_list[i].surface_id, s))
          => /\ ev'.ret = IVI_FAILED
             /\ surfaces'[s].id_surface = IVI_INVALID_ID
             /\ default_surface_id' = default_surface_id]_vars

\* ------------------------------------------------------------------------
\* C2 as stated: when several rules match an id-less surface and none of
\* their ids is held, the surface is given the id of the matching rule
\* declared FIRST; a surface that matches no rule is given no rule id.
\* ------------------------------------------------------------------------
C2_FirstDeclaredMatchWins ==
    [][\A s \in Surfaces :
          (ConfigureStep(s) /\ IdLess(s)) =>
          LET M == DeclaredMatching(Identity(surfaces, s)) IN
          /\ (M # {} /\ \A j \in M : ~Held(Declared[j].surface_id, s))
                 => surfaces'[s].id_surface = Declared[SetMin(M)].surface_id
          /\ M = {} => surfaces'[s].id_surface \notin DeclaredIds]_vars

\* C2 as amended: when several rules match an id-less surface and none of
\* their ids is held, the surface is given the id of the matching rule
\* declared LAST (the rule list is built by insertion at the head); a surface
\* that matches no rule is given no rule id.
C2_LastDeclaredMatchWins ==
    [][\A s \in Surfaces :
          (ConfigureStep(s) /\ IdLess(s)) =>
          LET M == DeclaredMatching(Identity(surfaces, s)) IN
          /\ (M # {} /\ \A j \in M : ~Held(Declared[j].surface_id, s))
                 => surfaces'[s].id_surface = Declared[SetMax(M)].surface_id
          /\ M = {} => surfaces'[s].id_surface \notin DeclaredIds]_vars

\* A surface matching two declared rules was configured while no other
\* surface was live, and holds the id of the later declared one.
C2_Witness ==
    /\ ev.op = "configure" /\ ev.path = "rule"
    /\ \A t \in Surfaces \ {ev.s} : ~surfaces[t].live
    /\ LET M == DeclaredMatching(Identity(surfaces, ev.s)) IN
       /\ Cardinality(M) >= 2
       /\ Declared[SetMin(M)].surface_id # Declared[SetMax(M)].surface_id
       /\ surfaces[ev.s].id_surface = Declared[SetMax(M)].surface_id

DefaultEnabled ==
    /\ config.default.present
    /\ config.default.id # INVALID_ID
    /\ config.default.max # INVALID_ID

DistinctIds ==
    \A i, j \in DOMAIN Declared :
        i # j => Declared[i].surface_id # Declared[j].surface_id

EveryRuleHasPattern ==
    \A j \in DOMAIN Declared :
        Declared[j].app_id # NULL \/ Declared[j].app_title # NULL

C4_LoadAcceptsIffValid ==
    pc # "init" =>
        /\ pc = "run" <=>
              /\ DistinctIds
              /\ EveryRuleHasPattern
              /\ \A j \in DOMAIN Declared :
                     ~(/\ DefaultEnabled
                       /\ config.default.id <= Declared[j].surface_id
                       /\ Declared[j].surface_id < config.default.max)
        /\ pc = "failed" => app_list = <<>>

\* C4 as amended: the load accepts a configuration if and only if every rule
\* has its surface-id set, the rule ids are pairwise distinct, no rule id
\* lies in the CLOSED interval [default-surface-id, default-surface-id-max]
\* of the values as read (0 and 0 without a [desktop-app-default] section, a
\* missing key reading as 0xFFFFFFFF, and also when default behaviour is
\* thereby off), every rule has a pattern, and there is a rule or default
\* behaviour is enabled; it then holds every rule.  When it fails, module
\* activation fails and no rule remains in the store.
StoredLo == IF config.default.present THEN config.default.id ELSE 0
StoredHi == IF config.default.present THEN config.default.max ELSE 0

C4_LoadAcceptsIffValidClosed ==
    pc # "init" =>
        /\ pc = "run" <=>
              /\ \A j \in DOMAIN Declared : Declared[j].surface_id # INVALID_ID
              /\ DistinctIds
              /\ EveryRuleHasPattern
              /\ \A j \in DOMAIN Declared :
                     ~(/\ StoredLo <= Declared[j].surface_id
                       /\ Declared[j].surface_id <= StoredHi)
              /\ Declared # <<>> \/ DefaultEnabled
        /\ pc = "run" => Len(app_list) = Len(Declared)
        /\ pc = "failed" => app_list = <<>>

\* The load was refused for a single rule, with a pattern, whose id equals
\* the upper bound of an enabled, non-empty default range.
C4_Witness ==
    /\ pc = "failed"
    /\ DefaultEnabled
    /\ config.default.id < config.default.max
    /\ Len(Declared) = 1
    /\ Declared[1].app_id # NULL
    /\ Declared[1].surface_id = config.default.max

\* ------------------------------------------------------------------------
\* C5: with default behaviour enabled on [start, max), for as long as no
\* surface that matches a rule has entered the default path and no cursor id
\* was found occupied, the k-th id-less surface configured that matches no
\* rule is given id start + k - 1 for k = 1 .. max - start, and every later
\* one is given no id; once the range is exhausted the cursor never moves
\* again and no unmatched surface is given an id, whatever is removed.
\* ------------------------------------------------------------------------
C5_DefaultIdsInSequence ==
    [][/\ \A s \in Surfaces :
             (/\ ConfigureStep(s)
              /\ IdLess(s)
              /\ default_behavior_set = 1
              /\ MatchingOf(s) = {}
              /\ hist.clean /\ hist'.clean
              /\ hist.k < MaxEvents)
             => LET k == hist.k + 1 IN
                IF k <= config.default.max - config.default.id
                THEN /\ ev'.ret = IVI_SUCCEEDED
                     /\ surfaces'[s].id_surface = config.default.id + k - 1
                ELSE /\ ev'.ret = IVI_FAILED
                     /\ surfaces'[s].id_surface = IVI_INVALID_ID
       /\ (/\ pc = "run"
           /\ default_behavior_set = 1
           /\ default_surface_id >= default_surface_id_max)
          => /\ default_surface_id' = default_surface_id
             /\ \A s \in Surfaces :
                    (ConfigureStep(s) /\ IdLess(s) /\ MatchingOf(s) = {})
                    => /\ ev'.ret = IVI_FAILED
                       /\ surfaces'[s].id_surface = IVI_INVALID_ID]_vars

\* The third unmatched surface of a range of two ids was configured and
\* refused, after the surfaces holding the two default ids were removed.
C5_Witness ==
    /\ ev.op = "configure" /\ ev.path = "exhausted" /\ ev.ret = IVI_FAILED
    /\ default_behavior_set = 1
    /\ config.default.max - config.default.id = 2
    /\ hist.clean /\ hist.k = 3
    /\ \A t \in Surfaces : surfaces[t].origin # "default"
    /\ surfaces[ev.s].id_surface = IVI_INVALID_ID

\* ------------------------------------------------------------------------
\* C6 as stated: after a successful load with default behaviour enabled the
\* cursor satisfies start <= next <= max and never decreases, and every id
\* the default allocator hands out lies in [start, max).
\* ------------------------------------------------------------------------
C6_CursorWithinRange ==
    [][(pc' = "run" /\ default_behavior_set' = 1) =>
          /\ config.default.id <= default_surface_id'
          /\ default_surface_id' <= config.default.max
          /\ pc = "run" => default_surface_id' >= default_surface_id
          /\ ev'.path = "default" =>
                 /\ config.default.id <= surfaces'[ev'.s].id_surface
                 /\ surfaces'[ev'.s].id_surface < config.default.max]_vars

\* C6 as amended: after a successful load with default behaviour enabled the
\* cursor satisfies start <= next, and next <= max whenever the configured
\* range has start <= max (a range with start > max is accepted by the load:
\* next then stays at start, above max, and no id is handed out); the cursor
\* never decreases, and every id the default allocator hands out lies in
\* [start, max).
C6_CursorWithinRangeIfOrdered ==
    [][(pc' = "run" /\ default_behavior_set' = 1) =>
          /\ config.default.id <= default_surface_id'
          /\ IF config.default.id <= config.default.max
             THEN default_surface_id' <= config.default.max
             ELSE default_surface_id' = config.default.id /\ ev'.path # "default"
          /\ pc = "run" => default_surface_id' >= default_surface_id
          /\ ev'.path = "default" =>
                 /\ config.default.id <= surfaces'[ev'.s].id_surface
                 /\ surfaces'[ev'.s].id_surface < config.default.max]_vars

\* The last id of the range has just been handed out: the cursor is at max.
C6_Witness ==
    /\ pc = "run" /\ default_behavior_set = 1
    /\ ev.op = "configure" /\ ev.path = "default"
    /\ config.default.id < config.default.max
    /\ default_surface_id = config.default.max
    /\ surfaces[ev.s].id_surface = config.default.max - 1

\* ------------------------------------------------------------------------
\* C7: when an id-less surface that matches no rule is configured with
\* default behaviour enabled and the cursor id, inside the range, is held by
\* a different live surface, the event fails and changes nothing: the
\* surface stays id-less, the cursor is not advanced, no rule is bound and
\* the registry client is not called.  And for as long as a live surface
\* holds the cursor id, no step hands out a default id.
\* ------------------------------------------------------------------------
C7_OccupiedCursorFailsWithoutChange ==
    [][/\ \A s \in Surfaces :
             (/\ ConfigureStep(s)
              /\ IdLess(s)
              /\ MatchingOf(s) = {}
              /\ default_behavior_set = 1
              /\ default_surface_id < default_surface_id_max
              /\ Held(default_surface_id, s))
             => /\ ev'.ret = IVI_FAILED
                /\ ev'.calls = <<>> /\ ev'.cmds = <<>>
                /\ UNCHANGED <<surfaces, default_surface_id, app_list,
                               redis_db, redis_ctx>>
       /\ (/\ pc = "run"
           /\ default_behavior_set = 1
           /\ \E t \in Surfaces : /\ surfaces[t].live
                                  /\ surfaces[t].id_surface = default_surface_id)
          => /\ ev'.path # "default"
             /\ default_surface_id' = default_surface_id]_vars

\* An unmatched surface was configured while another surface held the cursor
\* id, and was refused.
C7_Witness ==
    /\ ev.op = "configure" /\ ev.path = "collision" /\ ev.ret = IVI_FAILED
    /\ MatchingOf(ev.s) = {}
    /\ surfaces[ev.s].id_surface = IVI_INVALID_ID
    /\ default_surface_id < default_surface_id_max
    /\ Held(default_surface_id, ev.s)

\* ------------------------------------------------------------------------
\* C8: a "surface configured" event for a surface that already holds an id
\* changes nothing: the surface's id, every rule binding, the default cursor
\* and the registry are unchanged and the registry client is not called,
\* however often the event is delivered.
\* ------------------------------------------------------------------------
C8_ConfigureWithIdIsNoOp ==
    [][\A s \in Surfaces :
          (ConfigureStep(s) /\ ~IdLess(s))
          => /\ UNCHANGED <<surfaces, app_list, default_surface_id,
                            default_behavior_set, default_surface_id_max,
                            redis_db, redis_ctx, pc>>
             /\ ev'.calls = <<>> /\ ev'.cmds = <<>>]_vars

\* The event was delivered for a surface that holds a rule's id and is bound
\* to that rule, with both registry entries of the id present.
C8_Witness ==
    /\ ev.op = "configure" /\ ev.path = "none" /\ ev.ret = IVI_SUCCEEDED
    /\ surfaces[ev.s].live
    /\ surfaces[ev.s].origin = "rule"
    /\ \E i \in DOMAIN app_list :
           /\ app_list[i].layout_surface = ev.s
           /\ app_list[i].surface_id = surfaces[ev.s].id_surface
    /\ DbHas(redis_db, SuridKey(surfaces[ev.s].id_surface))
    /\ default_behavior_set = 1
    /\ default_surface_id < default_surface_id_max

\* ------------------------------------------------------------------------
\* C9: on "surface removed" for a surface that holds an id, when the handler
\* has returned no rule is bound to the surface, unregister was called
\* exactly once, with the id the surface held, and the registry entries
\* deleted are entries of that id and of no other: the key SURID-<id> is
\* gone when no command failed, and every entry deleted has that key or maps
\* an application to that id.
\* ------------------------------------------------------------------------
C9_RemoveReleasesAndUnregistersOnce ==
    [][\A s \in Surfaces :
          (RemoveStep(s) /\ ~IdLess(s)) =>
          LET id == surfaces[s].id_surface IN
          /\ \A i \in DOMAIN app_list' : app_list'[i].layout_surface # s
          /\ ev'.calls = << <<"redis_unreg", id>> >>
          /\ (redis_ctx = "ok" /\ redis_ctx' = "ok")
                 => ~DbHas(redis_db', SuridKey(id))
          /\ \A e \in redis_db \ redis_db' :
                 e.k = SuridKey(id) \/ e.v = FormatD(id)]_vars

\* ------------------------------------------------------------------------
\* C10: no registry failure is fatal.  When a registry command fails during
\* an event (the connection goes into error), the handler still returns and
\* the event keeps its local effects: a removed surface is released from its
\* rule, a configured surface keeps the id it was given.  From then on the
\* registry operations are no-ops: the registry content and the connection
\* state no longer change and the module keeps running.
\* ------------------------------------------------------------------------
C10_RegistryFailureNotFatal ==
    [][/\ (pc = "run" /\ redis_ctx = "ok" /\ redis_ctx' = "err") =>
             /\ pc' = "run"
             /\ \A s \in Surfaces :
                    RemoveStep(s) =>
                        /\ ~surfaces'[s].live
                        /\ \A i \in DOMAIN app_list' :
                               app_list'[i].layout_surface # s
             /\ \A s \in Surfaces :
                    (ConfigureStep(s) /\ IdLess(s)) =>
                        /\ ev'.ret = IVI_SUCCEEDED
                        /\ surfaces'[s].id_surface # IVI_INVALID_ID
       /\ (pc = "run" /\ redis_ctx = "err") =>
             /\ pc' = "run"
             /\ redis_ctx' = "err"
             /\ redis_db' = redis_db]_vars

\* ------------------------------------------------------------------------
\* Specification of the registry client alone: redis_reg and redis_unreg
\* applied to arguments of every kind, on the registry they have built
\* ------------------------------------------------------------------------
\* redis_reg(ida, app_id, surface_id) called on the agent's state
call_redis_reg(app_id, surface_id) ==
    /\ pc = "run"
    /\ \E o \in Oracles :
       LET st == redis_reg(HandlerState, app_id, surface_id, o.fail) IN
       /\ redis_ctx' = st.redis_ctx
       /\ redis_db' = st.redis_db
       /\ ev' = [op |-> "register", s |-> NoSurface, ret |-> IVI_SUCCEEDED,
                 path |-> "none", calls |-> st.calls, cmds |-> st.cmds]
    /\ UNCHANGED <<pc, config, default_behavior_set, default_surface_id,
                   default_surface_id_max, app_list, redis_server, surfaces,
                   hist>>

\* redis_unreg(ida, surface_id) called on the agent's state
call_redis_unreg(surface_id) ==
    /\ pc = "run"
    /\ \E o \in Oracles :
       LET st == redis_unreg(HandlerState, surface_id, o.fail, o.ub) IN
       /\ redis_ctx' = st.redis_ctx
       /\ redis_db' = st.redis_db
       /\ ev' = [op |-> "unregister", s |-> NoSurface, ret |-> IVI_SUCCEEDED,
                 path |-> "none", calls |-> st.calls, cmds |-> st.cmds]
       /\ pc' = IF st.crashed THEN "crashed" ELSE pc
    /\ UNCHANGED <<config, default_behavior_set, default_surface_id,
                   default_surface_id_max, app_list, redis_server, surfaces,
                   hist>>

\* Application ids: absent, empty, plain, and one that reads like a key of
\* the reverse mapping.  Surface ids as int32_t: negative, zero, positive.
OpsAppIds == {NULL, "", "a", SuridKey(1)}
OpsIds == {ToInt32(INVALID_ID), 0, 1, 2}
OpsConfigs ==
    {[default |-> [present |-> TRUE, id |-> 1, max |-> 3], sections |-> <<>>]}

InitOps == InitWith(OpsConfigs)
NextOps ==
    \/ id_agent_module_init
    \/ \E app \in OpsAppIds, id \in OpsIds : call_redis_reg(app, id)
    \/ \E id \in OpsIds : call_redis_unreg(id)
SpecOps == InitOps /\ [][NextOps]_vars

\* This step is register(a, i) / unregister(i), and was so before
RegisterStep(a, i) ==
    pc = "run" /\ ev'.op = "register" /\ ev'.calls = << <<"redis_reg", a, i>> >>
UnregisterStep(i) ==
    pc = "run" /\ ev'.op = "unregister" /\ ev'.calls = << <<"redis_unreg", i>> >>
Registered(a, i) ==
    ev.op = "register" /\ ev.calls = << <<"redis_reg", a, i>> >>
Unregistered(i) ==
    ev.op = "unregister" /\ ev.calls = << <<"redis_unreg", i>> >>

\* ------------------------------------------------------------------------
\* C11: when the registry endpoint is absent the connection handle is not
\* valid, and in every state where the handle is not valid (never connected,
\* connect budget exhausted, or in error) the handlers' register and
\* unregister issue no registry command and change neither the registry nor
\* the handle: nothing re-establishes the connection after start-up.
\* ------------------------------------------------------------------------
C11_NoOpWithoutValidHandle ==
    [][/\ (pc' = "run" /\ redis_server' = NULL) => redis_ctx' = "NULL"
       /\ (pc = "run" /\ redis_ctx # "ok")
          => /\ pc' = "run"
             /\ redis_ctx' = redis_ctx
             /\ redis_db' = redis_db
             /\ ev'.cmds = <<>>]_vars

\* Unregister was called for an id whose entry the registry still holds,
\* with the connection in error, and issued no command.
C11_Witness ==
    /\ ev.op = "remove"
    /\ redis_ctx = "err"
    /\ Len(ev.calls) = 1 /\ ev.calls[1][1] = "redis_unreg"
    /\ ev.calls[1][2] > 0
    /\ DbHas(redis_db, SuridKey(ev.calls[1][2]))
    /\ ev.cmds = <<>>

\* ------------------------------------------------------------------------
\* C12 as stated: connect terminates; it makes at most 10 connection
\* attempts in total, gives up with the client disabled when every attempt
\* is refused, and makes no further attempt once one has succeeded.
\* ------------------------------------------------------------------------
C12_AtMostTenAttempts ==
    (ev.op = "init" /\ pc = "run") =>
        /\ Len(ev.calls) <= 10
        /\ \A i \in 1 .. Len(ev.calls) - 1 : ev.calls[i][2] = "failed"
        /\ redis_ctx = "ok" <=>
               (ev.calls # <<>> /\ ev.calls[Len(ev.calls)][2] = "ok")

\* C12 as amended: connect terminates; it makes at most 11 connection
\* attempts in total (the first one and 10 retries), exactly 11 when every
\* attempt is refused, after which it gives up with the client disabled;
\* it makes no further attempt once one has succeeded, and none at all
\* when the endpoint is absent.
C12_AtMostElevenAttempts ==
    (ev.op = "init" /\ pc = "run") =>
        /\ Len(ev.calls) <= 11
        /\ \A i \in 1 .. Len(ev.calls) - 1 : ev.calls[i][2] = "failed"
        /\ redis_ctx = "ok" <=>
               (ev.calls # <<>> /\ ev.calls[Len(ev.calls)][2] = "ok")
        /\ (redis_server # NULL /\ redis_ctx # "ok") => Len(ev.calls) = 11
        /\ redis_server = NULL => ev.calls = <<>>

\* Every attempt was refused: the eleventh was made and the client is
\* disabled.
C12_Witness ==
    /\ ev.op = "init" /\ pc = "run"
    /\ redis_server # NULL
    /\ redis_ctx # "ok"
    /\ Len(ev.calls) = 11
    /\ \A i \in 1 .. 11 : ev.calls[i] = <<"redisConnect", "failed">>

\* ------------------------------------------------------------------------
\* C13 as stated: on a connected registry whose commands succeed, after
\* register(a, i) with a non-empty and i > 0 the registry maps SURID-i to a
\* and a to i; after a following unregister(i) neither key is present.
\* ------------------------------------------------------------------------
C13_RoundTrip ==
    [][\A a \in OpsAppIds \ {NULL, ""}, i \in OpsIds :
          (i > 0 /\ redis_ctx = "ok" /\ redis_ctx' = "ok") =>
          /\ RegisterStep(a, i) =>
                 /\ DbHas(redis_db', SuridKey(i))
                 /\ DbGet(redis_db', SuridKey(i)) = a
                 /\ DbHas(redis_db', a)
                 /\ DbGet(redis_db', a) = FormatD(i)
          /\ (Registered(a, i) /\ UnregisterStep(i)) =>
                 /\ ~DbHas(redis_db', SuridKey(i))
                 /\ ~DbHas(redis_db', a)]_vars

\* C13 as amended: the same round trip for every non-empty a other than the
\* key SURID-i itself (registering the application id "SURID-i" under i
\* writes both mappings to the one key SURID-i, which then holds a).
C13_RoundTripUnlessKeyClash ==
    [][\A a \in OpsAppIds \ {NULL, ""}, i \in OpsIds :
          (i > 0 /\ redis_ctx = "ok" /\ redis_ctx' = "ok") =>
          /\ RegisterStep(a, i) =>
                 /\ DbHas(redis_db', SuridKey(i))
                 /\ DbGet(redis_db', SuridKey(i)) = a
                 /\ a # SuridKey(i) =>
                        /\ DbHas(redis_db', a)
                        /\ DbGet(redis_db', a) = FormatD(i)
          /\ (Registered(a, i) /\ UnregisterStep(i)) =>
                 /\ ~DbHas(redis_db', SuridKey(i))
                 /\ ~DbHas(redis_db', a)]_vars

\* unregister(2) has just emptied a registry that held exactly the two
\* entries of ("a", 2), written by the register before it.
C13_Witness ==
    /\ Unregistered(2)
    /\ redis_ctx = "ok"
    /\ ev.cmds = << <<"GET", SuridKey(2)>>, <<"DEL", SuridKey(2)>>,
                    <<"DEL", "a">> >>
    /\ redis_db = {}

\* ------------------------------------------------------------------------
\* C14: unregister is idempotent.  On a registry that answers the commands
\* it is sent, for every id and every registry content a second
\* unregister(id) right after the first leaves the registry as the first
\* left it, and the call returns.  When the registry holds no SURID-id
\* entry, unregister(id) sends GET SURID-id and DEL SURID-id only and
\* deletes no other key.
\* ------------------------------------------------------------------------
C14_UnregisterIdempotent ==
    [][\A i \in OpsIds :
          /\ (Unregistered(i) /\ UnregisterStep(i) /\ redis_ctx' = redis_ctx)
                 => /\ redis_db' = redis_db
                    /\ pc' = "run"
          /\ (/\ UnregisterStep(i)
              /\ i > 0
              /\ redis_ctx = "ok" /\ redis_ctx' = "ok"
              /\ ~DbHas(redis_db, SuridKey(i)))
                 => /\ ev'.cmds = << <<"GET", SuridKey(i)>>,
                                     <<"DEL", SuridKey(i)>> >>
                    /\ redis_db' = redis_db
                    /\ pc' = "run"]_vars

\* unregister(1) ran on a registry without SURID-1 that maps "a" to 1: it
\* sent GET and DEL of SURID-1 only, and "a" still maps to 1.
C14_Witness ==
    /\ Unregistered(1)
    /\ pc = "run" /\ redis_ctx = "ok"
    /\ ev.cmds = << <<"GET", SuridKey(1)>>, <<"DEL", SuridKey(1)>> >>
    /\ DbHas(redis_db, "a") /\ DbGet(redis_db, "a") = FormatD(1)
    /\ ~DbHas(redis_db, SuridKey(1))

\* ------------------------------------------------------------------------
\* C15: register(applicationId, surfaceId) writes nothing to the registry
\* when applicationId is absent or the empty string, or surfaceId <= 0: no
\* command is sent and the registry content is unchanged.
\* ------------------------------------------------------------------------
C15_RegisterRejectsEmptyOrNonPositive ==
    [][\A a \in OpsAppIds, i \in OpsIds :
          (RegisterStep(a, i) /\ (a = NULL \/ a = "" \/ i <= 0))
          => /\ ev'.cmds = <<>>
             /\ redis_db' = redis_db]_vars

\* ------------------------------------------------------------------------
\* C16: with the registry connected and answering, every id of the uint32
\* domain that a configure event applies to a surface with an application
\* id a is mirrored: afterwards the registry maps a to the id, in decimal,
\* and SURID-<id> to a, also for ids of 2^31 and above.
\* ------------------------------------------------------------------------
C16_EveryAppliedIdIsMirrored ==
    [][\A s \in Surfaces :
          (/\ ConfigureStep(s)
           /\ IdLess(s)
           /\ redis_ctx = "ok" /\ redis_ctx' = "ok"
           /\ surfaces'[s].id_surface # IVI_INVALID_ID
           /\ Identity(surfaces, s)[1] # NULL)
          => LET id == surfaces'[s].id_surface
                 a == Identity(surfaces, s)[1]
             IN /\ DbHas(redis_db', a)
                /\ DbGet(redis_db', a) = ToString(id)
                /\ DbHas(redis_db', "SURID-" \o ToString(id))
                /\ DbGet(redis_db', "SURID-" \o ToString(id)) = a]_vars

\* ------------------------------------------------------------------------
\* C17: identity extraction.  When the host reports no application id but a
\* title T for an id-less surface that is configured, the rules are matched
\* with applicationId = T (so a rule with application pattern T and no
\* title pattern matches) and T is what is registered; a surface with
\* neither attribute matches no rule and can only be given the default id.
\* ------------------------------------------------------------------------
C17_TitleStandsInForAppId ==
    [][\A s \in Surfaces :
          (ConfigureStep(s) /\ IdLess(s) /\ surfaces[s].app_id = NULL) =>
          LET T == surfaces[s].title
              M == {i \in DOMAIN app_list :
                       /\ app_list[i].cfg_app_id \in {NULL, T}
                       /\ app_list[i].cfg_title \in {NULL, T}}
              free == {i \in M : ~Held(app_list[i].surface_id, s)}
          IN IF T # NULL
             THEN /\ free # {} =>
                        /\ ev'.path = "rule"
                        /\ surfaces'[s].id_surface =
                               app_list[SetMin(free)].surface_id
                        /\ ev'.calls = << <<"redis_reg", T,
                                   ToInt32(app_list[SetMin(free)].surface_id)>> >>
                  /\ M = {} => ev'.path # "rule"
                  /\ \A k \in DOMAIN ev'.calls : ev'.calls[k][2] = T
             ELSE /\ ev'.path # "rule"
                  /\ app_list' = app_list
                  /\ surfaces'[s].id_surface # IVI_INVALID_ID =>
                        /\ ev'.path = "default"
                        /\ surfaces'[s].id_surface = default_surface_id
                  /\ \A k \in DOMAIN ev'.calls : ev'.calls[k][2] = NULL]_vars

\* A surface without application id and with title "a" was given the id of
\* a rule whose application pattern is "a" and whose title pattern is unset,
\* and "a" is what was handed to the registry client.
C17_Witness ==
    /\ ev.op = "configure" /\ ev.path = "rule"
    /\ surfaces[ev.s].app_id = NULL
    /\ surfaces[ev.s].title = "a"
    /\ \E i \in DOMAIN app_list :
           /\ app_list[i].layout_surface = ev.s
           /\ app_list[i].cfg_app_id = "a"
           /\ app_list[i].cfg_title = NULL
           /\ surfaces[ev.s].id_surface = app_list[i].surface_id
           /\ ev.calls = << <<"redis_reg", "a", ToInt32(app_list[i].surface_id)>> >>

\* ------------------------------------------------------------------------
\* C18: registry mirror consistency.  With the registry connected and every
\* command answered so far, every live surface to which the engine gave an
\* id i, 0 < i < 2^31, under application id a has the reverse entry
\* SURID-i -> a, and the forward entry of a exists and holds the id of a
\* live surface the engine registered under a.
\* ------------------------------------------------------------------------
EngineAssigned(s) ==
    /\ surfaces[s].live
    /\ surfaces[s].origin \in {"rule", "default"}
    /\ 0 < surfaces[s].id_surface /\ surfaces[s].id_surface <= INT_MAX
    /\ Identity(surfaces, s)[1] # NULL

C18_MirrorConsistent ==
    (pc = "run" /\ redis_ctx = "ok") =>
        \A s \in Surfaces :
            EngineAssigned(s) =>
            LET i == surfaces[s].id_surface
                a == Identity(surfaces, s)[1]
            IN /\ DbHas(redis_db, SuridKey(i))
               /\ DbGet(redis_db, SuridKey(i)) = a
               /\ DbHas(redis_db, a)
               /\ \E t \in Surfaces :
                      /\ EngineAssigned(t)
                      /\ Identity(surfaces, t)[1] = a
                      /\ DbGet(redis_db, a) = FormatD(surfaces[t].id_surface)

\* ------------------------------------------------------------------------
\* C19: id uniqueness.  No two distinct live surfaces hold the same id;
\* every id a configure event applies to a surface is the surface-id of a
\* loaded rule whose patterns match the surface's identity or a value of
\* the default range [start, max); and no rule id lies in that range, so a
\* default id never equals a rule id.
\* ------------------------------------------------------------------------
DefaultRange ==
    IF default_behavior_set = 1
    THEN {n \in 0 .. INVALID_ID :
             config.default.id <= n /\ n < config.default.max}
    ELSE {}

C19_IdsUniqueAndFromRuleOrRange ==
    [][pc' = "run" =>
          /\ \A s, t \in Surfaces :
                 (/\ s # t
                  /\ surfaces'[s].live /\ surfaces'[t].live
                  /\ surfaces'[s].id_surface # IVI_INVALID_ID)
                 => surfaces'[s].id_surface # surfaces'[t].id_surface
          /\ \A s \in Surfaces :
                 (/\ ConfigureStep(s)
                  /\ surfaces'[s].id_surface # surfaces[s].id_surface)
                 => surfaces'[s].id_surface \in
                        {app_list[i].surface_id : i \in MatchingOf(s)}
                            \cup DefaultRange
          /\ \A i \in DOMAIN app_list' :
                 app_list'[i].surface_id \notin DefaultRange']_vars

\* A surface has just been given a default id while the other surface, live,
\* holds the id of a rule it matches.
C19_Witness ==
    /\ ev.op = "configure" /\ ev.path = "default"
    /\ surfaces[ev.s].id_surface \in DefaultRange
    /\ \E t \in Surfaces \ {ev.s} :
           /\ surfaces[t].live
           /\ surfaces[t].id_surface \in
                  {app_list[i].surface_id : i \in MatchingOf(t)}

\* ------------------------------------------------------------------------
\* C20: binding invariant.  In every reachable state the surface a rule is
\* bound to is unset or a live surface that holds exactly that rule's
\* surface-id, and no surface is bound to more than one rule; once a
\* surface's removal event has been processed no rule references it and,
\* the handler having returned, its id is held by no surface, so the rule's
\* id is free for a later matching surface.
\* ------------------------------------------------------------------------
C20_BindingInvariant ==
    [][/\ \A i \in DOMAIN app_list' :
             app_list'[i].layout_surface # NoSurface =>
                 /\ surfaces'[app_list'[i].layout_surface].live
                 /\ surfaces'[app_list'[i].layout_surface].id_surface =
                        app_list'[i].surface_id
       /\ \A i, j \in DOMAIN app_list' :
             (i # j /\ app_list'[i].layout_surface # NoSurface)
             => app_list'[i].layout_surface # app_list'[j].layout_surface
       /\ \A s \in Surfaces :
             RemoveStep(s) =>
                 /\ \A i \in DOMAIN app_list' : app_list'[i].layout_surface # s
                 /\ (pc' = "run" /\ ~IdLess(s)) =>
                        get_surface_from_id(surfaces', surfaces[s].id_surface)
                            = NoSurface]_vars

\* The surface bound to a rule has just been removed: the rule is unbound
\* and its id is held by no surface, while the other rule is still bound to
\* the other, live surface.
C20_Witness ==
    /\ ev.op = "remove"
    /\ ~surfaces[ev.s].live
    /\ Len(app_list) = 2
    /\ \E i, j \in DOMAIN app_list :
           /\ i # j
           /\ app_list[i].layout_surface = NoSurface
           /\ ev.calls = << <<"redis_unreg", ToInt32(app_list[i].surface_id)>> >>
           /\ get_surface_from_id(surfaces, app_list[i].surface_id) = NoSurface
           /\ app_list[j].layout_surface # NoSurface
           /\ surfaces[app_list[j].layout_surface].id_surface =
                  app_list[j].surface_id

====
